---- MODULE Spec2Model ----
(***************************************************************************)
(* Model of core/llm/llms/OpenAI.ts: the OpenAI-compatible provider        *)
(* adapter.  One call (streamChat, complete or listModels) is followed     *)
(* from its inputs through routing, payload construction, endpoint         *)
(* resolution, the HTTP request and the consumption of the SSE stream.     *)
(*                                                                         *)
(* Representation.  A JavaScript string is a sequence of one-character     *)
(* strings, so "" is <<>> and " " is <<" ">>.  An optional field f is a    *)
(* pair hasF / f.  Message objects live in a heap (a sequence of objects,  *)
(* a reference is an index) so that aliasing between the caller's objects  *)
(* and the wire payload is visible.  The sampling options (max_tokens,     *)
(* temperature, top_p, the penalties) and the request headers are copied   *)
(* verbatim by the code and are left out.                                  *)
(***************************************************************************)
EXTENDS Integers, Sequences, FiniteSets, TLC

\* ------------------------------------------------------------ bounds
MaxMsgs == 2      \* longest message sequence passed to streamChat
MaxStop == 6      \* longest stop list
MaxEvents == 3    \* longest SSE event stream

\* ------------------------------------------------- program constants
NON_CHAT_MODELS ==
  { "text-davinci-002", "text-davinci-003", "code-davinci-002",
    "text-ada-001", "text-babbage-001", "text-curie-001",
    "davinci", "curie", "babbage", "ada" }

CHAT_ONLY_MODELS ==
  { "gpt-3.5-turbo", "gpt-3.5-turbo-0613", "gpt-3.5-turbo-16k", "gpt-4",
    "gpt-35-turbo-16k", "gpt-35-turbo-0613", "gpt-35-turbo", "gpt-4-32k",
    "gpt-4-turbo-preview", "gpt-4-vision", "gpt-4-0125-preview",
    "gpt-4-1106-preview" }

\* the ":1337" of this.apiBase?.includes(":1337")
JanMarker == << ":", "1", "3", "3", "7" >>

\* the 4 of options.stop?.slice(0, 4)
StopLimit == 4

NoApiBaseError ==
  "No API base URL provided. Please set the 'apiBase' option in config.json"

\* new URL(relative, undefined) and new URL(relative, "") throw this
InvalidUrlError == "TypeError: Invalid URL"

\* ------------------------------------------------------------ strings
\* String.prototype.includes
Includes(s, sub) ==
  \E i \in 0..(Len(s) - Len(sub)) : SubSeq(s, i + 1, i + Len(sub)) = sub

\* slice(-n): the last n entries
SliceLast(a, n) == SubSeq(a, IF Len(a) < n THEN 1 ELSE Len(a) - n + 1, Len(a))

\* Array.prototype.slice(0, n)
Slice0(a, n) == SubSeq(a, 1, IF Len(a) < n THEN Len(a) ELSE n)

\* ----------------------------------------------------------- messages
NoImage == [hasUrl |-> FALSE, url |-> "", hasDetail |-> FALSE, detail |-> ""]

\* a content part as the caller writes it
TextPart(t) ==
  [type |-> "text", hasText |-> TRUE, text |-> t,
   hasImageUrl |-> FALSE, imageUrl |-> NoImage,
   hasImage_url |-> FALSE, image_url |-> NoImage]

ImagePart(u) ==
  [type |-> "image", hasText |-> FALSE, text |-> << >>,
   hasImageUrl |-> TRUE,
   imageUrl |-> [hasUrl |-> TRUE, url |-> u, hasDetail |-> FALSE, detail |-> ""],
   hasImage_url |-> FALSE, image_url |-> NoImage]

\* MessageContent = string | MessagePart[]
StrContent(s) == [kind |-> "string", str |-> s, parts |-> << >>]
PartsContent(p) == [kind |-> "parts", str |-> << >>, parts |-> p]

Message(r, c) == [role |-> r, content |-> c]

\* the part literal of _convertMessage: {type, text, image_url: {...imageUrl, detail: "low"}}
ConvertPart(part) ==
  [type |-> part.type, hasText |-> part.hasText, text |-> part.text,
   hasImageUrl |-> FALSE, imageUrl |-> NoImage,
   hasImage_url |-> TRUE,
   image_url |-> [hasUrl |-> part.hasImageUrl /\ part.imageUrl.hasUrl,
                  url |-> IF part.hasImageUrl THEN part.imageUrl.url ELSE "",
                  hasDetail |-> TRUE, detail |-> "low"]]

\* _convertMessage on the heap: a string-content message is returned as the
\* same object, a multi-part one as a new object {...message, content: parts}
ConvertMessage(h, id) ==
  IF h[id].content.kind = "string"
  THEN [heap |-> h, id |-> id]
  ELSE [heap |-> Append(h, [h[id] EXCEPT !.content =
                   PartsContent([i \in 1..Len(h[id].content.parts) |->
                                   ConvertPart(h[id].content.parts[i])])]),
        id |-> Len(h) + 1]

\* messages.map(this._convertMessage)
RECURSIVE MapConvert(_, _)
MapConvert(h, ids) ==
  IF ids = << >> THEN [heap |-> h, ids |-> << >>]
  ELSE LET first == ConvertMessage(h, Head(ids))
           rest == MapConvert(first.heap, Tail(ids))
       IN [heap |-> rest.heap, ids |-> << first.id >> \o rest.ids]

\* -------------------------------------------------------------- payload
\* _convertArgs: the wire arguments; stop is sliced for a ":1337" base
ConvertArgs(h, base, options, ids) ==
  LET converted == MapConvert(h, ids)
  IN [heap |-> converted.heap,
      args |-> [hasMessages |-> TRUE, messages |-> converted.ids,
                hasPrompt |-> FALSE, prompt |-> << >>,
                model |-> options.model,
                hasStop |-> options.hasStop,
                stop |-> IF base.has /\ Includes(base.url, JanMarker)
                         THEN (IF options.hasStop
                               THEN Slice0(options.stop, StopLimit)
                               ELSE options.stop)
                         ELSE options.stop,
                hasStream |-> FALSE]]

\* m.content === "" ? " " : m.content
ReplaceEmpty(content) ==
  IF content.kind = "string" /\ content.str = << >>
  THEN StrContent(<< " " >>)
  ELSE content

\* In-place variant of the substitution (m.content = ... on the mapped object)
SubstituteEmptyInPlace(h, ids) ==
  [heap |-> [j \in 1..Len(h) |->
               IF \E i \in 1..Len(ids) : ids[i] = j
               THEN [h[j] EXCEPT !.content = ReplaceEmpty(h[j].content)]
               ELSE h[j]],
   ids |-> ids]

\* body.messages.map((m) => ({...m, content: m.content === "" ? " " : m.content}))
\* every mapped message is a fresh object
RECURSIVE SubstituteEmpty(_, _)
SubstituteEmpty(h, ids) ==
  IF ids = << >> THEN [heap |-> h, ids |-> << >>]
  ELSE LET m == h[Head(ids)]
           h1 == Append(h, [m EXCEPT !.content = ReplaceEmpty(m.content)])
           rest == SubstituteEmpty(h1, Tail(ids))
       IN [heap |-> rest.heap, ids |-> << Len(h1) >> \o rest.ids]

\* the chat body: {...this._convertArgs(options, messages), stream: true}
\* followed by the empty-content substitution
ChatBody(h, base, options, ids) ==
  LET conv == ConvertArgs(h, base, options, ids)
      sub == SubstituteEmpty(conv.heap, conv.args.messages)
  IN [heap |-> sub.heap,
      body |-> [conv.args EXCEPT !.messages = sub.ids, !.hasStream = TRUE]]

\* the legacy body: _convertArgs(options, []), args.prompt = prompt,
\* delete args.messages, {...args, stream: true}
LegacyBody(h, base, options, prompt) ==
  LET conv == ConvertArgs(h, base, options, << >>)
  IN [heap |-> conv.heap,
      body |-> [conv.args EXCEPT !.hasPrompt = TRUE, !.prompt = prompt,
                                 !.hasMessages = FALSE, !.hasStream = TRUE]]

\* JSON.stringify(body): references are replaced by the objects' values
Stringify(h, body) ==
  [body EXCEPT !.messages = [i \in 1..Len(body.messages) |-> h[body.messages[i]]]]

\* ------------------------------------------------------------- endpoint
\* !this.apiBase
Falsy(base) == ~base.has \/ base.url = << >>

\* Endpoint resolution without the check of the base
GetEndpointNoCheck(type, base, endpoint) ==
  [ok |-> TRUE, error |-> "",
   url |-> [base |-> base.url, endpoint |-> endpoint,
            deployment |-> type = "azure"]]

\* _getEndpoint
GetEndpoint(type, base, endpoint) ==
  IF type = "azure"
  THEN IF Falsy(base)
       THEN [ok |-> FALSE, error |-> InvalidUrlError,
             url |-> [base |-> << >>, endpoint |-> endpoint, deployment |-> TRUE]]
       ELSE [ok |-> TRUE, error |-> "",
             url |-> [base |-> base.url, endpoint |-> endpoint, deployment |-> TRUE]]
  ELSE IF Falsy(base)
       THEN [ok |-> FALSE, error |-> NoApiBaseError,
             url |-> [base |-> << >>, endpoint |-> endpoint, deployment |-> FALSE]]
       ELSE [ok |-> TRUE, error |-> "",
             url |-> [base |-> base.url, endpoint |-> endpoint, deployment |-> FALSE]]

\* -------------------------------------------------------------- routing
\* Routing without the CHAT_ONLY override
UseLegacyNoOverride(model, flag) ==
  model \in NON_CHAT_MODELS \/ flag

\* the condition of the first if of _streamChat
UseLegacy(model, flag) ==
  model \notin CHAT_ONLY_MODELS /\ (model \in NON_CHAT_MODELS \/ flag)

\* stripImages of ../countTokens: the text of the text parts, image parts
\* dropped; a string is returned as it is.  Text parts are joined by "\n".
RECURSIVE JoinTexts(_)
JoinTexts(texts) ==
  IF texts = << >> THEN << >>
  ELSE IF Len(texts) = 1 THEN texts[1].text
  ELSE texts[1].text \o << "\n" >> \o JoinTexts(Tail(texts))

StripImages(content) ==
  IF content.kind = "string" THEN content.str
  ELSE JoinTexts(SelectSeq(content.parts, LAMBDA p : p.type = "text"))

\* Prompt taken from the first message instead of the last
LegacyPromptFirst(h, ids) ==
  IF ids = << >> THEN << >>
  ELSE IF h[ids[1]].content.kind = "string" /\ h[ids[1]].content.str = << >>
  THEN << >>
  ELSE StripImages(h[ids[1]].content)

\* stripImages(messages[messages.length - 1]?.content || "")
LegacyPrompt(h, ids) ==
  IF ids = << >> THEN << >>
  ELSE LET content == h[ids[Len(ids)]].content
       IN IF content.kind = "string" /\ content.str = << >>
          THEN << >>
          ELSE StripImages(content)

\* --------------------------------------------------------------- events
NoDelta == [hasRole |-> FALSE, role |-> "", hasContent |-> FALSE, content |-> << >>]

\* value.choices?.[0]?.text && value.finish_reason !== "eos"
LegacyYields(value) ==
  /\ value.choices # << >>
  /\ value.choices[1].hasText
  /\ value.choices[1].text # << >>
  /\ value.finish_reason # "eos"

\* Chat condition that only asks for a delta
ChatYieldsAnyDelta(value) ==
  /\ value.choices # << >>
  /\ value.choices[1].hasDelta

\* value.choices?.[0]?.delta?.content
ChatYields(value) ==
  /\ value.choices # << >>
  /\ value.choices[1].hasDelta
  /\ value.choices[1].delta.hasContent
  /\ value.choices[1].delta.content # << >>

\* the chunk the legacy branch yields: {role: "assistant", content}
LegacyChunk(text) ==
  [hasRole |-> TRUE, role |-> "assistant", hasContent |-> TRUE, content |-> text]

\* the response stream is held as long as the streamSse iterator is open
\* (../stream: the SSE primitive owns the response body)
ResponseHeld(its) == "streamSse" \in its

\* ------------------------------------------------------------ consumers
\* Accumulation that keeps only the latest chunk
AccumulateOverwrite(acc, chunk) == chunk.content

\* completion += chunk.content
Accumulate(acc, chunk) == acc \o chunk.content

\* Manual next() calls on the inner iterator: a return() of the outer
\* generator does not reach streamSse
ManualIterationReturn(p) ==
  IF p = "legacy" THEN { "_legacystreamComplete" } ELSE { }

\* The iterators a return() of _streamChat closes: each for await calls
\* return() on the iterator it is looping over
ForAwaitReturn(p) ==
  IF p = "legacy" THEN { "_legacystreamComplete", "streamSse" }
  ELSE { "streamSse" }

\* the body of the GET /models response
ModelsResponse == << [id |-> "gpt-4"], [id |-> "davinci"] >>

NoBody ==
  [hasMessages |-> FALSE, messages |-> << >>, hasPrompt |-> FALSE,
   prompt |-> << >>, model |-> "", hasStop |-> FALSE, stop |-> << >>,
   hasStream |-> FALSE]

\* ---------------------------------------------------------------- state
VARIABLES
  apiType,        \* this.apiType
  apiBase,        \* this.apiBase: [has, url]
  useLegacyCompletionsEndpoint,
  op,             \* the operation called
  options,        \* the CompletionOptions object of the call
  prompt,         \* the prompt argument of complete
  messages,       \* the messages array handed to _streamChat (references)
  heap,           \* the message objects
  given,          \* what the caller passed, by value
  script,         \* the events the server sends
  pos,            \* number of events read from the response stream
  pc,             \* position of the call
  path,           \* "none", "legacy" or "chat"
  requests,       \* the HTTP requests issued
  chunks,         \* the chunks _streamChat has yielded
  completion,     \* the accumulator of _complete
  result,         \* the value complete returned
  iters,          \* the open inner iterators
  error,          \* the error the call failed with
  listed          \* the value listModels returned

vars ==
  << apiType, apiBase, useLegacyCompletionsEndpoint, op, options, prompt,
     messages, heap, given, script, pos, pc, path, requests, chunks,
     completion, result, iters, error, listed >>

config == << apiType, apiBase, useLegacyCompletionsEndpoint >>
inputs == << op, options, prompt, given, script >>

\* --------------------------------------------------------------- inputs
SeqsUpTo(S, n) == UNION { [1..k -> S] : k \in 0..n }

\* API bases: undefined, "", "http://h/", "http://h:1337/", "http://h:1338/"
BaseNone == [has |-> FALSE, url |-> << >>]
BaseEmpty == [has |-> TRUE, url |-> << >>]
BasePlain == [has |-> TRUE, url |-> << "h","t","t","p",":","/","/","h","/" >>]
BaseJan ==
  [has |-> TRUE,
   url |-> << "h","t","t","p",":","/","/","h",":","1","3","3","7","/" >>]
BaseNear ==
  [has |-> TRUE,
   url |-> << "h","t","t","p",":","/","/","h",":","1","3","3","8","/" >>]
Bases == { BaseNone, BaseEmpty, BasePlain, BaseJan, BaseNear }

\* stop lists "s", "ss", "sss", ... of every length up to MaxStop, and no list
StopList(n) == [i \in 1..n |-> [j \in 1..i |-> "s"]]
StopOptions ==
  { [hasStop |-> FALSE, stop |-> << >>] }
    \cup { [hasStop |-> TRUE, stop |-> StopList(n)] : n \in 0..MaxStop }

OptionsOf(models, stops) ==
  { [model |-> m, hasStop |-> st.hasStop, stop |-> st.stop] :
      m \in models, st \in stops }

\* one model of each class, and every model the two lists name plus one more
SomeModels == { "gpt-4", "davinci", "llama" }
AllModels == CHAT_ONLY_MODELS \cup NON_CHAT_MODELS \cup { "llama" }

Hi == << "h", "i" >>
MsgEmpty == Message("user", StrContent(<< >>))
MsgHi == Message("user", StrContent(Hi))
MsgSys == Message("system", StrContent(<< "s" >>))
MsgParts ==
  Message("user", PartsContent(<< TextPart(<< "a" >>), ImagePart("u") >>))
MsgPool == { MsgEmpty, MsgHi, MsgSys, MsgParts }

\* parsed SSE events
Choice(hasText, text, finish, hasDelta, delta) ==
  [hasText |-> hasText, text |-> text, finish_reason |-> finish,
   hasDelta |-> hasDelta, delta |-> delta]
Event(finish, choices) == [finish_reason |-> finish, choices |-> choices]
Delta(hasRole, hasContent, content) ==
  [hasRole |-> hasRole, role |-> IF hasRole THEN "assistant" ELSE "",
   hasContent |-> hasContent, content |-> content]

EvTextEosChoice ==
  Event("null", << Choice(TRUE, << "x" >>, "eos", FALSE, NoDelta) >>)
EvTextNull ==
  Event("null", << Choice(TRUE, << "y" >>, "null", FALSE, NoDelta) >>)
EvTextEosTop ==
  Event("eos", << Choice(TRUE, << "z" >>, "null", FALSE, NoDelta) >>)
EvTextEmpty ==
  Event("null", << Choice(TRUE, << >>, "null", FALSE, NoDelta) >>)
EvNoChoices == Event("null", << >>)
EvDeltaRole ==
  Event("null", << Choice(FALSE, << >>, "null", TRUE, Delta(TRUE, TRUE, << "a" >>)) >>)
EvDeltaNoRole ==
  Event("null", << Choice(FALSE, << >>, "null", TRUE, Delta(FALSE, TRUE, << "b" >>)) >>)
EvDeltaEmpty ==
  Event("null", << Choice(FALSE, << >>, "stop", TRUE, Delta(TRUE, TRUE, << >>)) >>)
EvDeltaNoContent ==
  Event("null", << Choice(FALSE, << >>, "null", TRUE, Delta(TRUE, FALSE, << >>)) >>)
Events ==
  { EvTextEosChoice, EvTextNull, EvTextEosTop, EvTextEmpty, EvNoChoices,
    EvDeltaRole, EvDeltaNoRole, EvDeltaEmpty, EvDeltaNoContent }

\* two short streams: nothing, and one usable event for each path
ShortScripts == { << >>, << EvTextNull, EvDeltaRole >> }

\* ----------------------------------------------------------------- Init
\* The state when the call is made: the adapter's configuration, the
\* caller's arguments and the stream the server will send.
InitWith(types, bases, ops, models, stops, msgLists, prompts, scripts) ==
  /\ apiType \in types
  /\ apiBase \in bases
  /\ useLegacyCompletionsEndpoint \in BOOLEAN
  /\ op \in ops
  /\ options \in (IF op = "listModels"
                  THEN OptionsOf({ "gpt-4" }, { [hasStop |-> FALSE, stop |-> << >>] })
                  ELSE OptionsOf(models, stops))
  /\ prompt \in (IF op = "complete" THEN prompts ELSE { << >> })
  /\ heap \in (IF op = "streamChat" THEN msgLists ELSE { << >> })
  /\ messages = [i \in 1..Len(heap) |-> i]
  /\ given = [messages |-> heap, options |-> options]
  /\ script \in (IF op = "listModels" THEN { << >> } ELSE scripts)
  /\ pos = 0
  /\ pc = "idle"
  /\ path = "none"
  /\ requests = << >>
  /\ chunks = << >>
  /\ completion = << >>
  /\ result = << >>
  /\ iters = { }
  /\ error = ""
  /\ listed = << >>

Ops == { "streamChat", "complete", "listModels" }

\* every configuration, message sequence and stop list; short streams
Init ==
  InitWith({ "openai", "azure" }, Bases, Ops, SomeModels, StopOptions,
           SeqsUpTo(MsgPool, MaxMsgs), { << >>, Hi }, ShortScripts)

\* every event stream up to MaxEvents; one configuration, both paths
InitStream ==
  InitWith({ "openai" }, { BasePlain }, Ops, { "llama" },
           { [hasStop |-> FALSE, stop |-> << >>] }, { << MsgHi >> }, { Hi },
           SeqsUpTo(Events, MaxEvents))

\* every model name; base present or absent
InitRoute ==
  InitWith({ "openai" }, { BaseNone, BasePlain }, Ops, AllModels,
           { [hasStop |-> TRUE, stop |-> StopList(1)] }, { << MsgHi >> },
           { Hi }, ShortScripts)

\* -------------------------------------------------------------- actions
Post(url, h, body) ==
  [method |-> "POST", url |-> url, hasBody |-> TRUE, body |-> Stringify(h, body)]

Get(url) ==
  [method |-> "GET", url |-> url, hasBody |-> FALSE, body |-> NoBody]

\* streamChat(messages, options) is called: the generator exists, none of
\* its body has run
StreamChatCall ==
  /\ op = "streamChat"
  /\ pc = "idle"
  /\ pc' = "start"
  /\ UNCHANGED << config, inputs, messages, heap, pos, path, requests, chunks,
                  completion, result, iters, error, listed >>

\* _complete up to its call of _streamChat([{role: "user", content: prompt}])
Complete ==
  /\ op = "complete"
  /\ pc = "idle"
  /\ heap' = Append(heap, Message("user", StrContent(prompt)))
  /\ messages' = << Len(heap) + 1 >>
  /\ completion' = << >>
  /\ pc' = "start"
  /\ UNCHANGED << config, inputs, pos, path, requests, chunks, result, iters,
                  error, listed >>

\* first next() of _streamChat, legacy branch: prompt, _legacystreamComplete
\* up to the response of fetch
StreamChatLegacy ==
  /\ pc = "start"
  /\ UseLegacy(options.model, useLegacyCompletionsEndpoint)
  /\ LET built == LegacyBody(heap, apiBase, options, LegacyPrompt(heap, messages))
         ep == GetEndpoint(apiType, apiBase, "completions")
     IN /\ heap' = built.heap
        /\ path' = "legacy"
        /\ IF ep.ok
           THEN /\ requests' = Append(requests, Post(ep.url, built.heap, built.body))
                /\ iters' = { "_legacystreamComplete", "streamSse" }
                /\ pc' = "streaming"
                /\ error' = error
           ELSE /\ requests' = requests
                /\ iters' = iters
                /\ pc' = "error"
                /\ error' = ep.error
  /\ UNCHANGED << config, inputs, messages, pos, chunks, completion, result,
                  listed >>

\* first next() of _streamChat, chat branch, up to the response of fetch
StreamChatChat ==
  /\ pc = "start"
  /\ ~UseLegacy(options.model, useLegacyCompletionsEndpoint)
  /\ LET built == ChatBody(heap, apiBase, options, messages)
         ep == GetEndpoint(apiType, apiBase, "chat/completions")
     IN /\ heap' = built.heap
        /\ path' = "chat"
        /\ IF ep.ok
           THEN /\ requests' = Append(requests, Post(ep.url, built.heap, built.body))
                /\ iters' = { "streamSse" }
                /\ pc' = "streaming"
                /\ error' = error
           ELSE /\ requests' = requests
                /\ iters' = iters
                /\ pc' = "error"
                /\ error' = ep.error
  /\ UNCHANGED << config, inputs, messages, pos, chunks, completion, result,
                  listed >>

\* one turn of the for await of _legacystreamComplete, and of the for await
\* of the legacy branch around it
LegacyNext ==
  /\ pc = "streaming"
  /\ path = "legacy"
  /\ pos < Len(script)
  /\ pos' = pos + 1
  /\ IF LegacyYields(script[pos + 1])
     THEN /\ chunks' = Append(chunks, LegacyChunk(script[pos + 1].choices[1].text))
          /\ pc' = "yielded"
     ELSE UNCHANGED << chunks, pc >>
  /\ UNCHANGED << config, inputs, messages, heap, path, requests, completion,
                  result, iters, error, listed >>

\* one turn of the for await of the chat branch
ChatNext ==
  /\ pc = "streaming"
  /\ path = "chat"
  /\ pos < Len(script)
  /\ pos' = pos + 1
  /\ IF ChatYields(script[pos + 1])
     THEN /\ chunks' = Append(chunks, script[pos + 1].choices[1].delta)
          /\ pc' = "yielded"
     ELSE UNCHANGED << chunks, pc >>
  /\ UNCHANGED << config, inputs, messages, heap, path, requests, completion,
                  result, iters, error, listed >>

\* the event stream ends: the loops and the generators finish
StreamEnd ==
  /\ pc = "streaming"
  /\ pos = Len(script)
  /\ pc' = "done"
  /\ iters' = { }
  /\ UNCHANGED << config, inputs, messages, heap, pos, path, requests, chunks,
                  completion, result, error, listed >>

\* the caller of streamChat asks for the next chunk
CallerNext ==
  /\ op = "streamChat"
  /\ pc = "yielded"
  /\ pc' = "streaming"
  /\ UNCHANGED << config, inputs, messages, heap, pos, path, requests, chunks,
                  completion, result, iters, error, listed >>

\* the caller of streamChat stops consuming: return() on the generator,
\* which is suspended at its yield inside the for await
CallerCancel ==
  /\ op = "streamChat"
  /\ pc = "yielded"
  /\ pc' = "cancelled"
  /\ iters' = iters \ ForAwaitReturn(path)
  /\ UNCHANGED << config, inputs, messages, heap, pos, path, requests, chunks,
                  completion, result, error, listed >>

\* the loop body of _complete, then its next()
CompleteAccumulate ==
  /\ op = "complete"
  /\ pc = "yielded"
  /\ completion' = Accumulate(completion, chunks[Len(chunks)])
  /\ pc' = "streaming"
  /\ UNCHANGED << config, inputs, messages, heap, pos, path, requests, chunks,
                  result, iters, error, listed >>

\* return completion
CompleteReturn ==
  /\ op = "complete"
  /\ pc = "done"
  /\ result' = completion
  /\ pc' = "returned"
  /\ UNCHANGED << config, inputs, messages, heap, pos, path, requests, chunks,
                  completion, iters, error, listed >>

\* listModels
ListModels ==
  /\ op = "listModels"
  /\ pc = "idle"
  /\ LET ep == GetEndpoint(apiType, apiBase, "models")
     IN IF ep.ok
        THEN /\ requests' = Append(requests, Get(ep.url))
             /\ listed' = [i \in 1..Len(ModelsResponse) |-> ModelsResponse[i].id]
             /\ pc' = "done"
             /\ error' = error
        ELSE /\ UNCHANGED << requests, listed >>
             /\ pc' = "error"
             /\ error' = ep.error
  /\ UNCHANGED << config, inputs, messages, heap, pos, path, chunks, completion,
                  result, iters >>

Next ==
  \/ StreamChatCall
  \/ Complete
  \/ StreamChatLegacy
  \/ StreamChatChat
  \/ LegacyNext
  \/ ChatNext
  \/ StreamEnd
  \/ CallerNext
  \/ CallerCancel
  \/ CompleteAccumulate
  \/ CompleteReturn
  \/ ListModels

Spec == Init /\ [][Next]_vars
SpecStream == InitStream /\ [][Next]_vars
SpecRoute == InitRoute /\ [][Next]_vars

\* =============================================================== claims
\* the events read so far
Received == SubSeq(script, 1, pos)

\* the messages handed to _streamChat, by value
Passed ==
  IF op = "complete" THEN << Message("user", StrContent(prompt)) >>
  ELSE given.messages

PostRequests == { i \in 1..Len(requests) : requests[i].method = "POST" }

ContentsOf(cs) == [i \in 1..Len(cs) |-> cs[i].content]

RECURSIVE Concat(_)
Concat(ss) == IF ss = << >> THEN << >> ELSE Head(ss) \o Concat(Tail(ss))

\* C1: streamChat takes the legacy path (POST to completions) iff the model
\* is not in CHAT_ONLY and (it is in NON_CHAT or the flag is true), else the
\* chat path (POST to chat/completions); a CHAT_ONLY model takes the chat
\* path even with the flag, a NON_CHAT model the legacy path even without
\* it, any other model follows the flag.
C1_Routing ==
  LET m == options.model
      flag == useLegacyCompletionsEndpoint
      legacy == m \notin CHAT_ONLY_MODELS /\ (m \in NON_CHAT_MODELS \/ flag)
  IN op \in { "streamChat", "complete" } =>
       /\ pc \notin { "idle", "start" } => path \in { "legacy", "chat" }
       /\ path # "none" => (path = "legacy" <=> legacy)
       /\ m \in CHAT_ONLY_MODELS => path # "legacy"
       /\ m \in NON_CHAT_MODELS => path # "chat"
       /\ (m \notin CHAT_ONLY_MODELS /\ m \notin NON_CHAT_MODELS /\ path # "none")
            => (path = "legacy" <=> flag)
       /\ \A i \in 1..Len(requests) :
            /\ requests[i].method = "POST"
            /\ requests[i].url.endpoint =
                 IF legacy THEN "completions" ELSE "chat/completions"

C1_Witness ==
  /\ options.model = "gpt-4"
  /\ useLegacyCompletionsEndpoint
  /\ path = "chat"
  /\ Len(requests) = 1
  /\ requests[1].url.endpoint = "chat/completions"

\* C2: on the legacy path an event is emitted as a chunk iff its first
\* choice carries a non-empty text and the finish-reason of that choice is
\* not "eos"; {choices:[{text:"x", finish_reason:"eos"}]} yields no chunk.
ClaimedLegacyUsable(e) ==
  /\ e.choices # << >>
  /\ e.choices[1].hasText
  /\ e.choices[1].text # << >>
  /\ e.choices[1].finish_reason # "eos"

C2_LegacySkipRule ==
  path = "legacy" =>
    LET usable == SelectSeq(Received, ClaimedLegacyUsable)
    IN ContentsOf(chunks) = [i \in 1..Len(usable) |-> usable[i].choices[1].text]

\* C3: on the chat path the chunks yielded are exactly the first-choice
\* deltas of the events read whose delta has non-empty content, in arrival
\* order; the other events are skipped without error, and the sequence ends
\* exactly when the event stream ends, with no extra chunk.
HasChatContent(e) ==
  /\ e.choices # << >>
  /\ e.choices[1].hasDelta
  /\ e.choices[1].delta.hasContent
  /\ Len(e.choices[1].delta.content) > 0

C3_ChatChunks ==
  path = "chat" =>
    LET usable == SelectSeq(Received, HasChatContent)
    IN /\ chunks = [i \in 1..Len(usable) |-> usable[i].choices[1].delta]
       /\ pc \in { "done", "returned" } => pos = Len(script)
       /\ pc \in { "streaming", "yielded", "done", "returned", "cancelled" }
            => error = ""
       /\ (pc = "yielded") => (pos > 0 /\ HasChatContent(script[pos]))

C3_Witness ==
  /\ path = "chat"
  /\ pc = "done"
  /\ script = << EvDeltaRole, EvDeltaEmpty, EvDeltaNoRole >>
  /\ Len(chunks) = 2

\* C4: once the caller of streamChat has stopped consuming after a chunk,
\* on either path, the response stream is released and no further event is
\* read and no further chunk produced.
C4_Cancellation ==
  /\ [](pc = "cancelled" => ~ResponseHeld(iters) /\ iters = { })
  /\ [][pc = "cancelled" => (pc' = "cancelled" /\ pos' = pos /\ chunks' = chunks
                               /\ requests' = requests)]_vars

C4_Witness ==
  /\ pc = "cancelled"
  /\ path = "legacy"
  /\ Len(chunks) = 1
  /\ pos < Len(script)
  /\ ~ResponseHeld(iters)

\* the caller's message objects and message sequence are as passed
CallerMessagesUnchanged ==
  op = "streamChat" =>
    /\ messages = [i \in 1..Len(given.messages) |-> i]
    /\ Len(heap) >= Len(given.messages)
    /\ \A i \in 1..Len(given.messages) : heap[i] = given.messages[i]

\* C5 as stated: on the chat path a message with content "" is transmitted
\* with content " ", every other message with its content unchanged, and
\* the caller's messages are unchanged.
C5_AsStated ==
  /\ CallerMessagesUnchanged
  /\ path = "chat" =>
       \A r \in PostRequests :
         /\ requests[r].body.hasMessages
         /\ Len(requests[r].body.messages) = Len(Passed)
         /\ \A i \in 1..Len(Passed) :
              requests[r].body.messages[i].content =
                IF Passed[i].content = StrContent(<< >>)
                THEN StrContent(<< " " >>)
                ELSE Passed[i].content

\* the wire form of a multi-part content: each part keeps type and text and
\* carries image_url = the part's image reference with detail "low"
WireParts(parts) ==
  [i \in 1..Len(parts) |->
     [type |-> parts[i].type, hasText |-> parts[i].hasText,
      text |-> parts[i].text, hasImageUrl |-> FALSE, imageUrl |-> NoImage,
      hasImage_url |-> TRUE,
      image_url |-> [hasUrl |-> parts[i].imageUrl.hasUrl,
                     url |-> parts[i].imageUrl.url,
                     hasDetail |-> TRUE, detail |-> "low"]]]

\* C5 amended: on the chat path a message with content "" is transmitted
\* with content " ", every other string-content message with its content
\* unchanged, a multi-part message with its parts in wire form (image
\* reference under image_url with detail "low"); roles are kept and the
\* caller's messages are unchanged.
C5_Amended ==
  /\ CallerMessagesUnchanged
  /\ path = "chat" =>
       \A r \in PostRequests :
         /\ requests[r].body.hasMessages
         /\ Len(requests[r].body.messages) = Len(Passed)
         /\ \A i \in 1..Len(Passed) :
              /\ requests[r].body.messages[i].role = Passed[i].role
              /\ requests[r].body.messages[i].content =
                   IF Passed[i].content.kind = "parts"
                   THEN PartsContent(WireParts(Passed[i].content.parts))
                   ELSE IF Passed[i].content.str = << >>
                   THEN StrContent(<< " " >>)
                   ELSE Passed[i].content

C5_Witness ==
  /\ path = "chat"
  /\ given.messages = << MsgEmpty, MsgParts >>
  /\ Len(requests) = 1
  /\ requests[1].body.messages[1].content = StrContent(<< " " >>)
  /\ heap[1].content = StrContent(<< >>)

\* C6: in standard mode with the API base absent, streamChat on either
\* path, complete and listModels fail with the 'no API base URL provided'
\* error; no request is issued and no chunk emitted.
C6_ConfigurationError ==
  (apiType # "azure" /\ (~apiBase.has \/ apiBase.url = << >>)) =>
    /\ requests = << >>
    /\ chunks = << >>
    /\ pc \in { "idle", "start", "error" }
    /\ pc = "error" <=> error = NoApiBaseError
    /\ pc = "error" =>
         (op = "listModels" \/ path \in { "legacy", "chat" })

C6_Witness ==
  /\ apiType = "openai"
  /\ ~apiBase.has
  /\ op = "streamChat"
  /\ path = "legacy"
  /\ pc = "error"
  /\ error = NoApiBaseError
  /\ requests = << >>

\* C7: with ":1337" in the API base the transmitted stop list is the first
\* min(4, length) entries of the original, in order; with any other base it
\* is the full list; the caller's options and stop list are not mutated.
HasJanMarker(url) ==
  \E i \in 1..Len(url) :
    /\ i + 4 <= Len(url)
    /\ url[i] = ":" /\ url[i + 1] = "1" /\ url[i + 2] = "3"
    /\ url[i + 3] = "3" /\ url[i + 4] = "7"

C7_StopTruncation ==
  /\ options = given.options
  /\ \A r \in PostRequests :
       LET sent == requests[r].body.stop
           orig == given.options.stop
           n == IF Len(orig) < 4 THEN Len(orig) ELSE 4
       IN /\ requests[r].body.hasStop = given.options.hasStop
          /\ IF apiBase.has /\ HasJanMarker(apiBase.url)
             THEN /\ Len(sent) = n
                  /\ \A i \in 1..n : sent[i] = orig[i]
             ELSE sent = orig

C7_Witness ==
  /\ apiBase = BaseJan
  /\ given.options.hasStop
  /\ Len(given.options.stop) = 6
  /\ Len(options.stop) = 6
  /\ Len(requests) = 1
  /\ requests[1].body.stop = StopList(4)

\* C8: complete returns the concatenation, in emission order, of the
\* content of every chunk the streamed chat call yielded, on either path;
\* an empty stream gives "".
C8_CompleteConcatenates ==
  pc = "returned" =>
    /\ result = Concat(ContentsOf(chunks))
    /\ pos = Len(script)
    /\ Len(messages) = 1
    /\ heap[messages[1]] = [role |-> "user", content |-> StrContent(prompt)]

C8_Witness ==
  /\ pc = "returned"
  /\ path = "chat"
  /\ Len(chunks) = 3
  /\ result = << "a", "b", "a" >>

\* C9: every chunk streamChat yields, on either path, carries both a role
\* and a content.
C9_UnifiedShape ==
  \A i \in 1..Len(chunks) : chunks[i].hasRole /\ chunks[i].hasContent

\* C10: on the legacy path the prompt sent is the content of the last
\* message with image parts stripped ([text "a", image] gives "a"), earlier
\* messages contribute nothing, no messages give ""; the payload carries
\* the prompt and no messages field.
C10_LegacyPrompt ==
  path = "legacy" =>
    \A r \in PostRequests :
      /\ requests[r].url.endpoint = "completions"
      /\ requests[r].body.hasPrompt
      /\ ~requests[r].body.hasMessages
      /\ requests[r].body.messages = << >>
      /\ requests[r].body.prompt =
           IF Passed = << >> THEN << >>
           ELSE StripImages(Passed[Len(Passed)].content)
      /\ (Passed # << >> /\ Passed[Len(Passed)] = MsgParts)
           => requests[r].body.prompt = << "a" >>

C10_Witness ==
  /\ path = "legacy"
  /\ given.messages = << MsgHi, MsgParts >>
  /\ Len(requests) = 1
  /\ requests[1].body.prompt = << "a" >>
  /\ ~requests[1].body.hasMessages

====
